---- MODULE Spec2Model ----
(***************************************************************************)
(* DriveWiper: the audit sink (wiper/logging_manager.py, db_logger.py,     *)
(* file_logger.py) and the wipe orchestrator (wipe_drive.py).              *)
(*                                                                         *)
(* Two specifications share the variables:                                 *)
(*   SinkSpec  one process making a sequence of log_wipe_event calls;      *)
(*   WipeSpec  one run of do_wipe (one device per invocation).             *)
(* do_wipe persists through write_log and never calls log_wipe_event, so   *)
(* the sink variables stay untouched under WipeSpec.                       *)
(***************************************************************************)
EXTENDS Integers, Sequences, FiniteSets, TLC

None == "None"

\* ------------------------------------------------------------------ bounds
\* persist calls made by one process
MaxCalls == 3
\* last clock reading (seconds) a run can observe
MaxTime == 1
\* seconds in one UTC day, scaled down
SecondsPerDay == 2
\* bytes on the modelled device
MaxDevLen == 1
\* largest exit status an external command returns
MaxRc == 1
\* largest --sample-bytes value tried
MaxSample == 2
\* read chunk of sample_hash (1024 * 1024 in the source), scaled down
ChunkSize == 2

\* sessions handed to the sink
Sessions == {"s1", "s2"}

VARIABLES
    \* ---- audit sink (one process)
    enabled,        \* DatabaseLogger.enabled (DB_ENABLED read at construction)
    use_db,         \* logging_manager._use_db
    conn,           \* DatabaseLogger._conn: None or "open"
    wipe_logs,      \* rows of table wipe_logs, each [call, event]
    fallback_file,  \* lines of FileLogger.log_path, each [call, event]
    console,        \* what the sink printed, in order
    calls,          \* one entry per finished log_wipe_event call
    \* ---- orchestrator (one do_wipe run)
    pc,             \* position in do_wipe
    args,           \* do_wipe's arguments and os.path.exists(device)
    disk,           \* the device's first bytes
    now,            \* last value read from the clock
    io,             \* external effects of the run, in order
    loc,            \* do_wipe's local variables
    wipelog,        \* files under LOG_DIR, each entry [file, record]
    out,            \* what do_wipe printed
    exit_code,      \* -1 while running, else the process's exit status
    \* ---- one call of parse_hdparm_identity, line by line
    p_text,         \* the argument text
    p_lines,        \* text.splitlines()
    p_hist,         \* the parser's state before line 1 and after each line
    \* ---- one call of sample_hash with num_bytes > 0, read by read
    s_src,          \* the bytes the opened device holds
    s_count,        \* num_bytes
    s_remaining,    \* remaining
    s_hashed,       \* the bytes given to hasher.update so far, in order
    s_reads,        \* the sizes asked of f.read so far
    s_pc            \* "loop", "returned" (a digest) or "failed" (None)

sinkVars == <<enabled, use_db, conn, wipe_logs, fallback_file, console, calls>>
wipeVars == <<pc, args, disk, now, io, loc, wipelog, out, exit_code>>
parserVars == <<p_text, p_lines, p_hist>>
samplerVars == <<s_src, s_count, s_remaining, s_hashed, s_reads, s_pc>>
vars == <<enabled, use_db, conn, wipe_logs, fallback_file, console, calls,
          pc, args, disk, now, io, loc, wipelog, out, exit_code,
          p_text, p_lines, p_hist,
          s_src, s_count, s_remaining, s_hashed, s_reads, s_pc>>

\* =================================================================
\*  Audit sink
\* =================================================================

\* mutant: a held connection is not reused, every call connects again
DbConnect_Always(en, c, connectOk) ==
    IF ~en THEN [raised |-> FALSE, conn |-> c, opened |-> FALSE]
    ELSE IF connectOk THEN [raised |-> FALSE, conn |-> "open", opened |-> TRUE]
    ELSE [raised |-> TRUE, conn |-> c, opened |-> TRUE]
\* DatabaseLogger._connect: returns without connecting when disabled or when a
\* connection is already held; otherwise psycopg2.connect, which may raise.
DbConnect(en, c, connectOk) ==
    IF ~en THEN [raised |-> FALSE, conn |-> c, opened |-> FALSE]
    ELSE IF c # None THEN [raised |-> FALSE, conn |-> c, opened |-> FALSE]
    ELSE IF connectOk THEN [raised |-> FALSE, conn |-> "open", opened |-> TRUE]
    ELSE [raised |-> TRUE, conn |-> c, opened |-> TRUE]

\* mutant: a session that already has a row is not inserted again
DbLog_Dedup(en, c, rows, row, connectOk, insertOk) ==
    IF ~en
    THEN [raised |-> TRUE, conn |-> c, rows |-> rows,
          connect |-> FALSE, insert |-> FALSE]
    ELSE LET k == DbConnect(en, c, connectOk) IN
         IF k.raised
         THEN [raised |-> TRUE, conn |-> k.conn, rows |-> rows,
               connect |-> k.opened, insert |-> FALSE]
         ELSE IF insertOk
         THEN [raised |-> FALSE, conn |-> k.conn,
               rows |-> IF \E i \in 1 .. Len(rows) : rows[i].event = row.event
                        THEN rows ELSE Append(rows, row),
               connect |-> k.opened, insert |-> TRUE]
         ELSE [raised |-> TRUE, conn |-> k.conn, rows |-> rows,
               connect |-> k.opened, insert |-> TRUE]
\* DatabaseLogger.log: raises when disabled, connects lazily, then one INSERT
\* (autocommit: the row is there iff execute returned).
DbLog(en, c, rows, row, connectOk, insertOk) ==
    IF ~en
    THEN [raised |-> TRUE, conn |-> c, rows |-> rows,
          connect |-> FALSE, insert |-> FALSE]
    ELSE LET k == DbConnect(en, c, connectOk) IN
         IF k.raised
         THEN [raised |-> TRUE, conn |-> k.conn, rows |-> rows,
               connect |-> k.opened, insert |-> FALSE]
         ELSE IF insertOk
         THEN [raised |-> FALSE, conn |-> k.conn, rows |-> Append(rows, row),
               connect |-> k.opened, insert |-> TRUE]
         ELSE [raised |-> TRUE, conn |-> k.conn, rows |-> rows,
               connect |-> k.opened, insert |-> TRUE]

\* FileLogger.log: open(log_path, "a") and one write; raises on failure.
FileLog(lines, row, fileOk) ==
    IF fileOk THEN [raised |-> FALSE, lines |-> Append(lines, row)]
    ELSE [raised |-> TRUE, lines |-> lines]

\* mutant: the latch is ignored, the database is tried whenever it is enabled
TryDb_IgnoreLatch(use, en) == en
\* log_wipe_event: "if _use_db and _db_logger.enabled"
TryDb(use, en) == use /\ en

\* mutant: a call that skips the database re-arms the latch
LatchAfter_Rearm(use, tried, raised) ==
    IF tried /\ raised THEN FALSE ELSE TRUE
\* log_wipe_event: "_use_db = False" in the except branch, nowhere else
LatchAfter(use, tried, raised) ==
    IF tried /\ raised THEN FALSE ELSE use

\* mutant: the "return" after a successful insert is missing
FallsThrough_NoReturn(tried, raised) == TRUE
\* log_wipe_event: the file write is reached unless the insert returned
FallsThrough(tried, raised) == ~tried \/ raised

\* log_wipe_event: the three prints of the last except branch
FatalOutput(k, event) ==
    << [kind |-> "fatal", call |-> k],
       [kind |-> "event", call |-> k, event |-> event],
       [kind |-> "traceback", call |-> k] >>

\* log_wipe_event: the prints of the database except branch
DbFailOutput(k) ==
    << [kind |-> "db_warning", call |-> k],
       [kind |-> "reason", call |-> k],
       [kind |-> "traceback", call |-> k] >>

\* log_wipe_event(event), the whole call. connectOk, insertOk and fileOk are
\* what the database and the filesystem would answer during this call.
log_wipe_event ==
    /\ Len(calls) < MaxCalls
    /\ \E event \in Sessions, connectOk \in BOOLEAN, insertOk \in BOOLEAN,
          fileOk \in BOOLEAN :
        LET k     == Len(calls) + 1
            row   == [call |-> k, event |-> event]
            tried == TryDb(use_db, enabled)
            db    == IF tried
                     THEN DbLog(enabled, conn, wipe_logs, row, connectOk, insertOk)
                     ELSE [raised |-> FALSE, conn |-> conn, rows |-> wipe_logs,
                           connect |-> FALSE, insert |-> FALSE]
            toFile == FallsThrough(tried, db.raised)
            fl    == IF toFile THEN FileLog(fallback_file, row, fileOk)
                     ELSE [raised |-> FALSE, lines |-> fallback_file]
        IN  /\ use_db' = LatchAfter(use_db, tried, db.raised)
            /\ conn' = db.conn
            /\ wipe_logs' = db.rows
            /\ fallback_file' = fl.lines
            /\ console' = console
                   \o (IF tried /\ db.raised THEN DbFailOutput(k) ELSE << >>)
                   \o (IF toFile /\ fl.raised THEN FatalOutput(k, event) ELSE << >>)
            /\ calls' = Append(calls,
                   [event |-> event,
                    db_would_work |-> (conn # None \/ connectOk) /\ insertOk,
                    db_tried |-> tried, connect |-> db.connect,
                    insert |-> db.insert, db_raised |-> tried /\ db.raised,
                    file_tried |-> toFile, file_raised |-> toFile /\ fl.raised,
                    raised |-> FALSE])
    /\ UNCHANGED <<enabled>>
    /\ UNCHANGED <<wipeVars, parserVars, samplerVars>>


\* =================================================================
\*  Orchestrator: helpers
\* =================================================================

\* Python's None and a present value, as records so that they compare
NoneV == [some |-> FALSE]
Some(x) == [some |-> TRUE, v |-> x]

Min(a, b) == IF a < b THEN a ELSE b

RetCodes == 0 .. MaxRc

\* exit status of a command whose status the code only compares with 0
ZeroOrNot == {0, 1}

\* first bytes of the device
Bytes == {0, 1}
Contents == UNION {[1 .. n -> Bytes] : n \in 0 .. MaxDevLen}
SameLen(c) == {d \in Contents : Len(d) = Len(c)}

\* stdout of "hdparm -I": lines of identity text; << >> is empty output
IdentityTexts ==
    {<< >>, <<"M", "o", "d", "e", "l", " ", "N", "u", "m", "b", "e", "r", ":", " ", "A", "\n">>}

\* what the operator can type at the prompt, as characters
Typed ==
    { <<"Y", "E", "S">>, <<"\t", "Y", "E", "S", " ">>, <<"Y", " ", "E", "S">>,
      <<"y", "e", "s">>, <<"Y", "E", "S", "!">>, <<"N", "O">>, <<" ">>, << >> }

Whitespace == {" ", "\t"}

RECURSIVE LStrip(_)
LStrip(s) ==
    IF s # << >> /\ Head(s) \in Whitespace THEN LStrip(Tail(s)) ELSE s

RECURSIVE RStrip(_)
RStrip(s) ==
    IF s # << >> /\ s[Len(s)] \in Whitespace
    THEN RStrip(SubSeq(s, 1, Len(s) - 1)) ELSE s

\* str.strip()
Strip(s) == RStrip(LStrip(s))

\* mutant: any input starting with Y confirms
Confirmed_Prefix(typed) == Strip(typed) # << >> /\ Head(Strip(typed)) = "Y"
\* do_wipe: confirm.strip() != "YES" aborts
Confirmed(typed) == Strip(typed) = <<"Y", "E", "S">>

\* do_wipe: "if not dry_run and not assume_yes"
NeedsPrompt(dry_run, assume_yes) == ~dry_run /\ ~assume_yes

\* utc_now_iso(): the reading t (seconds, microseconds dropped) as date and
\* time of day
utc_now_iso(t) == [date |-> t \div SecondsPerDay, time |-> t % SecondsPerDay]

\* one external effect of the run
Eff(op, found, rc) == [op |-> op, found |-> found, rc |-> rc]

\* ---- strings as sequences of characters, and the str methods the parser uses

\* the literals of parse_hdparm_identity
K_ModelNumber ==
    <<"M", "o", "d", "e", "l", " ", "N", "u", "m", "b", "e", "r", ":">>
K_SerialNumber ==
    <<"S", "e", "r", "i", "a", "l", " ", "N", "u", "m", "b", "e", "r", ":">>
K_FirmwareRevision ==
    <<"F", "i", "r", "m", "w", "a", "r", "e", " ", "R", "e", "v", "i", "s",
      "i", "o", "n", ":">>
K_DeviceSize ==
    <<"d", "e", "v", "i", "c", "e", " ", "s", "i", "z", "e", " ", "w", "i",
      "t", "h", " ", "M", " ", "=", " ", "1", "0", "0", "0", "*", "1", "0",
      "0", "0", ":">>
K_Security ==
    <<"S", "e", "c", "u", "r", "i", "t", "y", ":">>
K_Colon ==
    <<":">>
K_supported ==
    <<"s", "u", "p", "p", "o", "r", "t", "e", "d">>
K_not ==
    <<"n", "o", "t">>
K_enabled ==
    <<"e", "n", "a", "b", "l", "e", "d">>
K_locked ==
    <<"l", "o", "c", "k", "e", "d">>
K_frozen ==
    <<"f", "r", "o", "z", "e", "n">>
K_enhanced_erase ==
    <<"e", "n", "h", "a", "n", "c", "e", "d", " ", "e", "r", "a", "s", "e">>
K_erase_time ==
    <<"e", "r", "a", "s", "e", " ", "t", "i", "m", "e">>
K_security_erase_unit ==
    <<"s", "e", "c", "u", "r", "i", "t", "y", " ", "e", "r", "a", "s", "e",
      " ", "u", "n", "i", "t">>

UpperCase ==
    <<"A", "B", "C", "D", "E", "F", "G", "H", "I", "J", "K", "L", "M", "N", "O",
      "P", "Q", "R", "S", "T", "U", "V", "W", "X", "Y", "Z">>
LowerCase ==
    <<"a", "b", "c", "d", "e", "f", "g", "h", "i", "j", "k", "l", "m", "n", "o",
      "p", "q", "r", "s", "t", "u", "v", "w", "x", "y", "z">>

\* str.lower()
LowerChar(c) ==
    IF \E i \in DOMAIN UpperCase : UpperCase[i] = c
    THEN LowerCase[CHOOSE i \in DOMAIN UpperCase : UpperCase[i] = c]
    ELSE c
Lower(str) == [i \in 1 .. Len(str) |-> LowerChar(str[i])]

\* str.startswith(prefix)
StartsWith(str, prefix) ==
    Len(str) >= Len(prefix) /\ SubSeq(str, 1, Len(prefix)) = prefix

\* position of the first occurrence of sub in str, 0 when there is none
Find(str, sub) ==
    LET at == {i \in 1 .. (Len(str) - Len(sub) + 1) :
                  SubSeq(str, i, i + Len(sub) - 1) = sub}
    IN  IF at = {} THEN 0 ELSE CHOOSE i \in at : \A j \in at : i <= j

\* "sub in str"
Contains(str, sub) == Find(str, sub) # 0

\* str.split(sep, 1)[1], for a str that contains sep
AfterFirst(str, sep) ==
    SubSeq(str, Find(str, sep) + Len(sep), Len(str))

\* line.startswith((" ", "\t"))
Indented(line) == line # << >> /\ line[1] \in {" ", "\t"}

\* str.splitlines() for text whose line ends are "\n": the pieces between
\* the line ends, and no empty last line after a final "\n"
SplitLines(text) ==
    LET ends == {i \in 1 .. Len(text) : text[i] = "\n"}
        n == IF text = << >> \/ text[Len(text)] = "\n"
             THEN Cardinality(ends) ELSE Cardinality(ends) + 1
        EndOf(k) == IF k = 0 THEN 0
                    ELSE IF k > Cardinality(ends) THEN Len(text) + 1
                    ELSE CHOOSE i \in ends : Cardinality({j \in ends : j < i}) = k - 1
    IN  [k \in 1 .. n |-> SubSeq(text, EndOf(k - 1) + 1, EndOf(k) - 1)]

\* data[key] = value
Put(data, key, value) ==
    [x \in DOMAIN data \cup {key} |-> IF x = key THEN value ELSE data[x]]

\* data.setdefault(key, value)
SetDefault(data, key, value) ==
    IF key \in DOMAIN data THEN data ELSE Put(data, key, value)

\* mutant: the flags start with defaults
InitialData_Defaults(text) == [raw |-> text, security_enabled |-> FALSE]
\* parse_hdparm_identity: data = {"raw": text}
InitialData(text) == [raw |-> text]

\* parse_hdparm_identity: model, serial and firmware from their label lines
WithIdentity(data, stripped) ==
    IF StartsWith(stripped, K_ModelNumber)
    THEN Put(data, "model", Strip(AfterFirst(stripped, K_ModelNumber)))
    ELSE IF StartsWith(stripped, K_SerialNumber)
    THEN Put(data, "serial", Strip(AfterFirst(stripped, K_SerialNumber)))
    ELSE IF StartsWith(stripped, K_FirmwareRevision)
    THEN Put(data, "firmware", Strip(AfterFirst(stripped, K_FirmwareRevision)))
    ELSE data

\* parse_hdparm_identity: the reported size; split(":", 1) always has two
\* parts here, the matched text holding a colon
WithSize(data, stripped) ==
    IF Contains(stripped, K_DeviceSize)
    THEN Put(data, "reported_size_m10", Strip(AfterFirst(stripped, K_Colon)))
    ELSE data

\* "not ('not' in lower)"
Positive(lower) == ~Contains(lower, K_not)

\* parse_hdparm_identity: "if lower.startswith('enabled')" and its like
FlagLine(lower, word) == StartsWith(lower, word)

\* mutant: security_supported keeps the value of the first line that set it
WithFlags_KeepFirst(data, stripped) ==
    LET lower == Lower(stripped)
        d1 == IF Contains(lower, K_supported)
              THEN SetDefault(data, "security_supported", Positive(lower)) ELSE data
        d2 == IF FlagLine(lower, K_enabled)
              THEN Put(d1, "security_enabled", Positive(lower)) ELSE d1
        d3 == IF FlagLine(lower, K_locked)
              THEN Put(d2, "security_locked", Positive(lower)) ELSE d2
        d4 == IF FlagLine(lower, K_frozen)
              THEN Put(d3, "security_frozen", Positive(lower)) ELSE d3
        d5 == IF Contains(lower, K_enhanced_erase)
              THEN Put(d4, "enhanced_erase_supported", Positive(lower)) ELSE d4
    IN  IF Contains(lower, K_erase_time) \/ Contains(lower, K_security_erase_unit)
        THEN SetDefault(d5, "erase_time_raw", stripped) ELSE d5
\* parse_hdparm_identity: the flags one line of the security block sets
WithFlags(data, stripped) ==
    LET lower == Lower(stripped)
        d1 == IF Contains(lower, K_supported)
              THEN Put(data, "security_supported", Positive(lower)) ELSE data
        d2 == IF FlagLine(lower, K_enabled)
              THEN Put(d1, "security_enabled", Positive(lower)) ELSE d1
        d3 == IF FlagLine(lower, K_locked)
              THEN Put(d2, "security_locked", Positive(lower)) ELSE d2
        d4 == IF FlagLine(lower, K_frozen)
              THEN Put(d3, "security_frozen", Positive(lower)) ELSE d3
        d5 == IF Contains(lower, K_enhanced_erase)
              THEN Put(d4, "enhanced_erase_supported", Positive(lower)) ELSE d4
    IN  IF Contains(lower, K_erase_time) \/ Contains(lower, K_security_erase_unit)
        THEN SetDefault(d5, "erase_time_raw", stripped) ELSE d5

\* mutant: a header is recognised only while no block has been seen
IsHeader_Once(stripped, seen) == StartsWith(stripped, K_Security) /\ ~seen
\* parse_hdparm_identity: "if stripped.startswith('Security:')", tried on
\* every line
IsHeader(stripped, seen) == StartsWith(stripped, K_Security)

\* parse_hdparm_identity: "if stripped and not line.startswith((' ', '\t'))"
EndsBlock(line, stripped) == stripped # << >> /\ ~Indented(line)

\* parse_hdparm_identity: the body of the loop for one line; st is the
\* parser's state [data, in_security, seen], seen telling whether a header
\* was met before
LineStep(st, line) ==
    LET stripped == Strip(line)
        d == WithSize(WithIdentity(st.data, stripped), stripped)
    IN  IF IsHeader(stripped, st.seen)
        THEN [data |-> d, in_security |-> TRUE, seen |-> TRUE]
        ELSE IF st.in_security
        THEN (IF EndsBlock(line, stripped)
              THEN [data |-> d, in_security |-> FALSE, seen |-> st.seen]
              ELSE [data |-> WithFlags(d, stripped), in_security |-> TRUE,
                    seen |-> st.seen])
        ELSE [data |-> d, in_security |-> FALSE, seen |-> st.seen]

\* parse_hdparm_identity: the state before the first line
ParserStart(text) ==
    [data |-> InitialData(text), in_security |-> FALSE, seen |-> FALSE]

RECURSIVE ParseFrom(_, _)
ParseFrom(st, rest) ==
    IF rest = << >> THEN st ELSE ParseFrom(LineStep(st, Head(rest)), Tail(rest))

\* parse_hdparm_identity(text)
parse_hdparm_identity(text) == ParseFrom(ParserStart(text), SplitLines(text)).data

\* mutant: the exit status is not looked at
get_hdparm_info_IgnoreStatus(rc, stdout) ==
    IF stdout = << >> THEN NoneV
    ELSE Some(parse_hdparm_identity(stdout))
\* get_hdparm_info after run_cmd returned: None on a non-zero status or empty
\* output, else the parsed identity
get_hdparm_info(rc, stdout) ==
    IF rc # 0 \/ stdout = << >> THEN NoneV
    ELSE Some(parse_hdparm_identity(stdout))

\* mutant: every read asks for a whole chunk
ReadSize_Full(remaining) == ChunkSize
\* sample_hash: f.read(min(chunk_size, remaining))
ReadSize(remaining) == Min(ChunkSize, remaining)

\* sample_hash's read loop: chunks of min(chunk_size, remaining) until
\* remaining is 0 or a read returns nothing; the result is what was hashed
RECURSIVE ReadLoop(_, _, _, _)
ReadLoop(content, pos, remaining, hashed) ==
    IF remaining > 0
    THEN LET want  == ReadSize(remaining)
             chunk == SubSeq(content, pos + 1, Min(pos + want, Len(content)))
         IN  IF chunk = << >> THEN hashed
             ELSE ReadLoop(content, pos + Len(chunk), remaining - Len(chunk),
                           hashed \o chunk)
    ELSE hashed

\* sample_hash(device, num_bytes): None when num_bytes <= 0 or when open or a
\* read raises inside the try block (a warning is printed); else the sha256
\* of the bytes read, modelled without collisions as the bytes themselves
sample_hash(content, num_bytes, readOk) ==
    IF num_bytes <= 0
    THEN [value |-> NoneV, effects |-> << >>, warned |-> FALSE]
    ELSE IF ~readOk
    THEN [value |-> NoneV, effects |-> <<Eff("open", FALSE, 0)>>, warned |-> TRUE]
    ELSE [value |-> Some([sha256 |-> ReadLoop(content, 0, num_bytes, << >>)]),
          effects |-> <<Eff("open", TRUE, 0)>>, warned |-> FALSE]

\* mutant: the sampler is called whatever sample_bytes is
SamplingOn_Always(sample_bytes) == TRUE
\* do_wipe: "... if sample_bytes > 0 else None"
SamplingOn(sample_bytes) == sample_bytes > 0

\* do_wipe: "sample_hash(device, sample_bytes) if sample_bytes > 0 else None"
TakeSample(content, sample_bytes, readOk) ==
    IF SamplingOn(sample_bytes)
    THEN LET r == sample_hash(content, sample_bytes, readOk)
         IN  [r EXCEPT !.effects = <<Eff("sample_hash", TRUE, 0)>> \o @]
    ELSE [value |-> NoneV, effects |-> << >>, warned |-> FALSE]

\* one step entry of ata_secure_erase
Step(name, rc) ==
    [step |-> name,
     cmd |-> <<"hdparm", "--user-master", "u", name, "p", "/dev/sdx">>,
     returncode |-> rc, stderr |-> IF rc = 0 THEN "" ELSE "error text"]

\* ata_secure_erase's result when step 1 returned rc
AfterSetPass(rc) ==
    [device |-> "/dev/sdx", method |-> "ata-secure-erase",
     steps |-> <<Step("security-set-pass", rc)>>, success |-> FALSE,
     error |-> "Failed to set security password"]

\* ata_secure_erase's result when step 2 returned rc2
AfterErase(rc1, rc2) ==
    IF rc2 # 0
    THEN [device |-> "/dev/sdx", method |-> "ata-secure-erase",
          steps |-> <<Step("security-set-pass", rc1), Step("security-erase", rc2)>>,
          success |-> FALSE, error |-> "Security erase command failed"]
    ELSE [device |-> "/dev/sdx", method |-> "ata-secure-erase",
          steps |-> <<Step("security-set-pass", rc1), Step("security-erase", rc2)>>,
          success |-> TRUE]

\* mutant: the erase command is sent whatever step 1 returned
StopAfterSetPass_Never(rc) == FALSE
\* ata_secure_erase: "if cp.returncode != 0: ... return result" after step 1
StopAfterSetPass(rc) == rc # 0

\* mutant: the dry-run steps are written like real steps
DryRunResult_FullSteps ==
    [device |-> "/dev/sdx", method |-> "ata-secure-erase", dry_run |-> TRUE,
     steps |-> <<Step("security-set-pass", 0), Step("security-erase", 0)>>,
     success |-> TRUE]
\* do_wipe: the dry-run method_result
DryRunResult ==
    [device |-> "/dev/sdx", method |-> "ata-secure-erase", dry_run |-> TRUE,
     steps |-> << [step |-> "security-set-pass", simulated |-> TRUE],
                  [step |-> "security-erase", simulated |-> TRUE] >>,
     success |-> TRUE]

\* mutant: a dry run goes on to the real erase
IsDryRun_Ignored(dry_run) == FALSE
\* do_wipe: "if dry_run:" under the method dispatch
IsDryRun(dry_run) == dry_run

\* mutant: a failed erase is still reported as PASS
Result_AlwaysPass(method_result) == "PASS"
\* do_wipe: "PASS" if method_result.get("success") else "FAIL"
Result(method_result) == IF method_result.success THEN "PASS" ELSE "FAIL"

\* do_wipe: the log record. operator, session_id, started_at and ended_at are
\* carried into it unchanged and are left out.
BuildRecord(a, l) ==
    [device |-> "/dev/sdx", method |-> a.method, dry_run |-> a.dry_run,
     pre_sample_bytes |-> IF a.sample_bytes > 0 THEN a.sample_bytes ELSE 0,
     pre_sample_hash |-> l.pre_hash, post_sample_hash |-> l.post_hash,
     device_info |-> l.dev_info, hdparm_before |-> l.hdparm_before,
     hdparm_after |-> l.hdparm_after, method_result |-> l.method_result.v,
     result |-> Result(l.method_result.v)]

\* write_log(record): mkdir, the file named from utc_now_iso(), logged_at set
\* from a second clock reading, one appended line; mkdir and the append raise
\* on failure and nothing catches them
write_log(files, record, t1, t2, mkdirOk, appendOk) ==
    IF ~mkdirOk THEN [raised |-> TRUE, files |-> files]
    ELSE IF ~appendOk THEN [raised |-> TRUE, files |-> files]
    ELSE [raised |-> FALSE,
          files |-> Append(files,
              [file |-> [prefix |-> "wipes-", day |-> utc_now_iso(t1)],
               record |-> [logged_at |-> utc_now_iso(t2), rec |-> record]])]

\* do_wipe: "if pre_hash and post_hash" and the hash-match line
HashMatch(pre, post) ==
    IF pre.some /\ post.some
    THEN (IF pre.v = post.v THEN "YES (unchanged sample!)" ELSE "NO (sample changed)")
    ELSE "not printed"


\* =================================================================
\*  Orchestrator: do_wipe, one action per step
\* =================================================================

\* sys.exit(code)
Exit(code) == pc' = "exited" /\ exit_code' = code

\* an exception nothing catches ends the process with a traceback, status 1
Crash == pc' = "crashed" /\ exit_code' = 1

\* do_wipe: the os.path.exists(device) check
CheckDevice ==
    /\ pc = "init"
    /\ IF ~args.device_exists
       THEN /\ Exit(1)
            /\ out' = Append(out, [kind |-> "error", text |-> "device does not exist"])
       ELSE /\ pc' = "confirm"
            /\ UNCHANGED <<out, exit_code>>
    /\ UNCHANGED <<args, disk, now, io, loc, wipelog>>
    /\ UNCHANGED <<sinkVars, parserVars, samplerVars>>

\* do_wipe: the confirmation prompt. input() raises EOFError on a closed stdin.
Confirm ==
    /\ pc = "confirm"
    /\ IF NeedsPrompt(args.dry_run, args.assume_yes)
       THEN \E eof \in BOOLEAN, typed \in Typed :
              /\ io' = Append(io, Eff("input", ~eof, 0))
              /\ IF eof
                 THEN /\ Crash
                      /\ UNCHANGED <<loc, out>>
                 ELSE /\ loc' = [loc EXCEPT !.confirm = Some(typed)]
                      /\ IF Confirmed(typed)
                         THEN /\ pc' = "list_drives"
                              /\ UNCHANGED <<out, exit_code>>
                         ELSE /\ Exit(0)
                              /\ out' = Append(out, [kind |-> "aborted_by_user"])
       ELSE /\ pc' = "list_drives"
            /\ UNCHANGED <<io, loc, out, exit_code>>
    /\ UNCHANGED <<args, disk, now, wipelog>>
    /\ UNCHANGED <<sinkVars, parserVars, samplerVars>>

\* do_wipe: devices = list_drives(); dev_info = the entry of the device.
\* run_cmd exits 1 when lsblk is missing, list_drives exits with lsblk's
\* status when it is not 0, json.loads raises on output that is not JSON.
ListDrives ==
    /\ pc = "list_drives"
    /\ \E found \in BOOLEAN, rc \in RetCodes, json \in BOOLEAN, listed \in BOOLEAN :
         /\ io' = Append(io, Eff("lsblk", found, IF found THEN rc ELSE 0))
         /\ IF ~found
            THEN /\ Exit(1)
                 /\ out' = Append(out, [kind |-> "error", text |-> "command not found"])
                 /\ UNCHANGED loc
            ELSE IF rc # 0
            THEN /\ Exit(rc)
                 /\ out' = Append(out, [kind |-> "error", text |-> "lsblk failed"])
                 /\ UNCHANGED loc
            ELSE IF ~json
            THEN /\ Crash
                 /\ UNCHANGED <<loc, out>>
            ELSE /\ pc' = "hdparm_before"
                 /\ loc' = [loc EXCEPT !.dev_info =
                              IF listed THEN Some([path |-> "/dev/sdx"]) ELSE NoneV]
                 /\ UNCHANGED <<out, exit_code>>
    /\ UNCHANGED <<args, disk, now, wipelog>>
    /\ UNCHANGED <<sinkVars, parserVars, samplerVars>>

\* do_wipe: hdparm_before = get_hdparm_info(device)
HdparmBefore ==
    /\ pc = "hdparm_before"
    /\ \E found \in BOOLEAN, rc \in ZeroOrNot, stdout \in IdentityTexts :
         /\ io' = Append(io, Eff("hdparm -I", found, IF found THEN rc ELSE 0))
         /\ IF ~found
            THEN /\ Exit(1)
                 /\ out' = Append(out, [kind |-> "error", text |-> "command not found"])
                 /\ UNCHANGED loc
            ELSE /\ pc' = "sample_before"
                 /\ loc' = [loc EXCEPT !.hdparm_before = get_hdparm_info(rc, stdout)]
                 /\ UNCHANGED <<out, exit_code>>
    /\ UNCHANGED <<args, disk, now, wipelog>>
    /\ UNCHANGED <<sinkVars, parserVars, samplerVars>>

\* do_wipe: pre_hash = ...
SampleBefore ==
    /\ pc = "sample_before"
    /\ \E readOk \in BOOLEAN :
         LET r == TakeSample(disk, args.sample_bytes, readOk) IN
         /\ io' = io \o r.effects
         /\ out' = out \o (IF r.warned THEN <<[kind |-> "warn_sample"]>> ELSE << >>)
         /\ loc' = [loc EXCEPT !.pre_hash = r.value]
    /\ pc' = "method"
    /\ UNCHANGED <<args, disk, now, wipelog, exit_code>>
    /\ UNCHANGED <<sinkVars, parserVars, samplerVars>>

\* do_wipe: the method dispatch; the dry-run branch builds its result here
SelectMethod ==
    /\ pc = "method"
    /\ IF args.method # "ata-secure-erase"
       THEN /\ Exit(1)
            /\ out' = Append(out, [kind |-> "error", text |-> "unsupported method"])
            /\ UNCHANGED <<loc, now>>
       ELSE IF IsDryRun(args.dry_run)
       THEN /\ loc' = [loc EXCEPT !.method_result = Some(DryRunResult)]
            /\ pc' = "hdparm_after"
            /\ UNCHANGED <<now, out, exit_code>>
       ELSE /\ pc' = "set_pass"
            /\ UNCHANGED <<loc, now, out, exit_code>>
    /\ UNCHANGED <<args, disk, io, wipelog>>
    /\ UNCHANGED <<sinkVars, parserVars, samplerVars>>

\* ata_secure_erase, step 1: hdparm --security-set-pass. A non-zero status
\* returns the result to do_wipe.
SetPass ==
    /\ pc = "set_pass"
    /\ \E found \in BOOLEAN, rc \in RetCodes :
         /\ io' = Append(io, Eff("security-set-pass", found, IF found THEN rc ELSE 0))
         /\ IF ~found
            THEN /\ Exit(1)
                 /\ out' = Append(out, [kind |-> "error", text |-> "command not found"])
                 /\ UNCHANGED loc
            ELSE IF StopAfterSetPass(rc)
            THEN /\ pc' = "hdparm_after"
                 /\ loc' = [loc EXCEPT !.method_result = Some(AfterSetPass(rc))]
                 /\ UNCHANGED <<out, exit_code>>
            ELSE /\ pc' = "security_erase"
                 /\ loc' = [loc EXCEPT !.rc1 = rc]
                 /\ UNCHANGED <<out, exit_code>>
    /\ UNCHANGED <<args, disk, now, wipelog>>
    /\ UNCHANGED <<sinkVars, parserVars, samplerVars>>

\* ata_secure_erase, step 2: hdparm --security-erase. The command may
\* rewrite the device whatever status it returns.
SecurityErase ==
    /\ pc = "security_erase"
    /\ \E found \in BOOLEAN, rc \in RetCodes, after \in SameLen(disk) :
         /\ io' = Append(io, Eff("security-erase", found, IF found THEN rc ELSE 0))
         /\ IF ~found
            THEN /\ Exit(1)
                 /\ out' = Append(out, [kind |-> "error", text |-> "command not found"])
                 /\ UNCHANGED <<loc, disk>>
            ELSE /\ pc' = "hdparm_after"
                 /\ disk' = after
                 /\ loc' = [loc EXCEPT !.method_result = Some(AfterErase(loc.rc1, rc))]
                 /\ UNCHANGED <<out, exit_code>>
    /\ UNCHANGED <<args, now, wipelog>>
    /\ UNCHANGED <<sinkVars, parserVars, samplerVars>>

\* do_wipe: hdparm_after = get_hdparm_info(device)
HdparmAfter ==
    /\ pc = "hdparm_after"
    /\ \E found \in BOOLEAN, rc \in ZeroOrNot, stdout \in IdentityTexts :
         /\ io' = Append(io, Eff("hdparm -I", found, IF found THEN rc ELSE 0))
         /\ IF ~found
            THEN /\ Exit(1)
                 /\ out' = Append(out, [kind |-> "error", text |-> "command not found"])
                 /\ UNCHANGED loc
            ELSE /\ pc' = "sample_after"
                 /\ loc' = [loc EXCEPT !.hdparm_after = get_hdparm_info(rc, stdout)]
                 /\ UNCHANGED <<out, exit_code>>
    /\ UNCHANGED <<args, disk, now, wipelog>>
    /\ UNCHANGED <<sinkVars, parserVars, samplerVars>>

\* do_wipe: post_hash = ...
SampleAfter ==
    /\ pc = "sample_after"
    /\ \E readOk \in BOOLEAN :
         LET r == TakeSample(disk, args.sample_bytes, readOk) IN
         /\ io' = io \o r.effects
         /\ out' = out \o (IF r.warned THEN <<[kind |-> "warn_sample"]>> ELSE << >>)
         /\ loc' = [loc EXCEPT !.post_hash = r.value]
    /\ pc' = "persist"
    /\ UNCHANGED <<args, disk, now, wipelog, exit_code>>
    /\ UNCHANGED <<sinkVars, parserVars, samplerVars>>

\* do_wipe: the record is built and handed to write_log; the file name and
\* logged_at come from two clock readings
WriteRecord ==
    \E t1 \in now .. MaxTime, mkdirOk \in BOOLEAN, appendOk \in BOOLEAN :
    \E t2 \in t1 .. MaxTime :
        LET record == BuildRecord(args, loc)
            w == write_log(wipelog, record, t1, t2, mkdirOk, appendOk)
        IN  /\ io' = Append(io, Eff("write_log", TRUE, IF w.raised THEN 1 ELSE 0))
            /\ loc' = [loc EXCEPT !.record = Some(record)]
            /\ wipelog' = w.files
            /\ now' = IF ~mkdirOk THEN now ELSE t2
            /\ IF w.raised
               THEN Crash
               ELSE pc' = "summary" /\ UNCHANGED exit_code

\* mutant: a failed erase is not logged
Persist_OnlyOnSuccess ==
    /\ pc = "persist"
    /\ IF loc.method_result.v.success
       THEN WriteRecord
       ELSE /\ loc' = [loc EXCEPT !.record = Some(BuildRecord(args, loc))]
            /\ pc' = "summary"
            /\ UNCHANGED <<io, wipelog, now, exit_code>>
    /\ UNCHANGED <<args, disk, out>>
    /\ UNCHANGED <<sinkVars, parserVars, samplerVars>>
\* do_wipe: write_log(record) follows the record under no condition, and
\* nothing catches what it raises
Persist ==
    /\ pc = "persist"
    /\ WriteRecord
    /\ UNCHANGED <<args, disk, out>>
    /\ UNCHANGED <<sinkVars, parserVars, samplerVars>>

\* do_wipe: the printed summary, the hash lines and the failure banner; main
\* then returns and the process ends with status 0
Summary ==
    /\ pc = "summary"
    /\ out' = out
          \o << [kind |-> "summary", dry_run |-> args.dry_run,
                 device_info |-> loc.dev_info.some, result |-> loc.record.v.result,
                 hash_match |-> HashMatch(loc.pre_hash, loc.post_hash)] >>
          \o (IF ~loc.method_result.v.success
              THEN <<[kind |-> "error", text |-> "wipe reported failure"]>>
              ELSE << >>)
    /\ pc' = "done"
    /\ exit_code' = 0
    /\ UNCHANGED <<args, disk, now, io, loc, wipelog>>
    /\ UNCHANGED <<sinkVars, parserVars, samplerVars>>

\* =================================================================
\*  Specifications
\* =================================================================

SinkIdle ==
    /\ use_db = TRUE
    /\ conn = None
    /\ wipe_logs = << >>
    /\ fallback_file = << >>
    /\ console = << >>
    /\ calls = << >>

WipeIdle ==
    /\ pc = "idle"
    /\ args = [device_exists |-> TRUE, dry_run |-> TRUE, assume_yes |-> TRUE,
               sample_bytes |-> 0, method |-> "ata-secure-erase"]
    /\ disk = << >>
    /\ now = 0
    /\ io = << >>
    /\ loc = [confirm |-> NoneV, dev_info |-> NoneV, hdparm_before |-> NoneV,
              pre_hash |-> NoneV, rc1 |-> 0,
              method_result |-> NoneV, hdparm_after |-> NoneV,
              post_hash |-> NoneV, record |-> NoneV]
    /\ wipelog = << >>
    /\ out = << >>
    /\ exit_code = -1

ParserIdle ==
    /\ p_text = << >>
    /\ p_lines = << >>
    /\ p_hist = << >>

SamplerIdle ==
    /\ s_src = << >>
    /\ s_count = 0
    /\ s_remaining = 0
    /\ s_hashed = << >>
    /\ s_reads = << >>
    /\ s_pc = "idle"

\* the module-level state of logging_manager after import; DB_ENABLED is the
\* environment's
SinkInit ==
    /\ enabled \in BOOLEAN
    /\ SinkIdle
    /\ WipeIdle
    /\ ParserIdle
    /\ SamplerIdle

SinkNext == log_wipe_event

SinkSpec == SinkInit /\ [][SinkNext]_vars

\* main() calling do_wipe with the parsed arguments
WipeInit ==
    /\ enabled = FALSE
    /\ SinkIdle
    /\ ParserIdle
    /\ SamplerIdle
    /\ pc = "init"
    /\ args \in [device_exists : BOOLEAN, dry_run : BOOLEAN, assume_yes : BOOLEAN,
                 sample_bytes : -1 .. MaxSample,
                 method : {"ata-secure-erase", "nvme-format"}]
    /\ disk \in Contents
    /\ now = 0
    /\ io = << >>
    /\ loc = [confirm |-> NoneV, dev_info |-> NoneV, hdparm_before |-> NoneV,
              pre_hash |-> NoneV, rc1 |-> 0,
              method_result |-> NoneV, hdparm_after |-> NoneV,
              post_hash |-> NoneV, record |-> NoneV]
    /\ wipelog = << >>
    /\ out = << >>
    /\ exit_code = -1

WipeNext ==
    \/ CheckDevice
    \/ Confirm
    \/ ListDrives
    \/ HdparmBefore
    \/ SampleBefore
    \/ SelectMethod
    \/ SetPass
    \/ SecurityErase
    \/ HdparmAfter
    \/ SampleAfter
    \/ Persist
    \/ Summary

WipeSpec == WipeInit /\ [][WipeNext]_vars


\* =================================================================
\*  Claims about the audit sink (SinkSpec)
\* =================================================================

RowsOf(k) == {i \in DOMAIN wipe_logs : wipe_logs[i].call = k}
LinesOf(k) == {i \in DOMAIN fallback_file : fallback_file[i].call = k}
Emitted(k) ==
    \E i \in DOMAIN console :
        console[i] = [kind |-> "event", call |-> k, event |-> calls[k].event]
FailedBefore(k) == \E j \in 1 .. (k - 1) : calls[j].db_raised

\* C1: when a log_wipe_event call has returned, its record is in exactly one of
\* the database and the fallback file, or in neither and then the full record
\* was printed to the console; it is never in both, a successful insert is
\* followed by no file write, and the call did not raise.
C1_ExactlyOneBackend ==
    \A k \in DOMAIN calls :
        LET d == Cardinality(RowsOf(k))
            f == Cardinality(LinesOf(k))
        IN  /\ d + f <= 1
            /\ (d + f = 0) => Emitted(k)
            /\ (d = 1) => ~calls[k].file_tried
            /\ \A i \in RowsOf(k) : wipe_logs[i].event = calls[k].event
            /\ \A i \in LinesOf(k) : fallback_file[i].event = calls[k].event
            /\ ~calls[k].raised

\* C1 witness: one process saw all three outcomes: a row in the database, a
\* line in the file after a failed insert, and a record that reached neither
C1_Witness ==
    /\ Len(calls) = 3
    /\ Cardinality(RowsOf(1)) = 1
    /\ calls[2].db_raised /\ Cardinality(LinesOf(2)) = 1
    /\ calls[3].file_raised /\ Emitted(3)

\* C2: the latch _use_db is true before any call, changes only from true to
\* false, changes only in a call whose database attempt raised, and is false in
\* every state after a failed database attempt.
C2_LatchOneWay ==
    /\ [](calls = << >> => use_db)
    /\ []((\E k \in DOMAIN calls : calls[k].db_raised) => ~use_db)
    /\ [][ use_db' # use_db =>
             /\ use_db /\ ~use_db'
             /\ Len(calls') = Len(calls) + 1
             /\ calls'[Len(calls')].db_raised ]_vars

\* C2 witness: the latch is still cleared two calls after the failure, although
\* the database would have worked in the last call
C2_Witness ==
    /\ Len(calls) = 3
    /\ calls[1].db_raised
    /\ calls[3].db_would_work
    /\ ~use_db

\* C3: every call after the first failed database attempt makes no database
\* attempt (no connect, no insert, no row) and goes to the fallback file, where
\* its record is unless the append itself raised, also when the database would
\* work again.
C3_FileAfterFailure ==
    \A k \in DOMAIN calls :
        FailedBefore(k) =>
            /\ ~calls[k].db_tried /\ ~calls[k].connect /\ ~calls[k].insert
            /\ RowsOf(k) = {}
            /\ calls[k].file_tried
            /\ ~calls[k].file_raised => Cardinality(LinesOf(k)) = 1

\* C3 witness: a call after the failure found a working database and still
\* wrote to the file
C3_Witness ==
    /\ Len(calls) >= 2
    /\ calls[1].db_raised
    /\ calls[2].db_would_work
    /\ Cardinality(LinesOf(2)) = 1

\* =================================================================
\*  Claims about the orchestrator (WipeSpec)
\* =================================================================

EraseOps == {"security-set-pass", "security-erase"}
Ops(names) == {i \in DOMAIN io : io[i].op \in names}
Ran(i) == io[i].found
Summaries == {i \in DOMAIN out : out[i].kind = "summary"}
Yes == <<"Y", "E", "S">>

C5_AppendFailureContained ==
    \A i \in Ops({"write_log"}) :
        io[i].rc # 0 =>
            /\ pc # "crashed"
            /\ \E j \in DOMAIN out : out[j].kind = "event"

\* C6: in ata_secure_erase the erase command is issued iff set-password
\* returned 0 and never before it; success iff both returned 0; after a failed
\* step no further command is issued; the recorded steps are the attempted ones
\* in order; the error names the step that failed.
C6_EraseSequence ==
    LET SP == Ops({"security-set-pass"})
        SE == Ops({"security-erase"})
        passOk == \E i \in SP : Ran(i) /\ io[i].rc = 0
    IN  /\ Cardinality(SP) <= 1 /\ Cardinality(SE) <= 1
        /\ \A e \in SE : \E i \in SP : i < e /\ Ran(i) /\ io[i].rc = 0
        /\ passOk => (SE # {} \/ pc = "security_erase")
        /\ (\E i \in SP : io[i].rc # 0) => SE = {}
        /\ (~args.dry_run /\ loc.method_result.some) =>
              LET r == loc.method_result.v
                  ran == Ops(EraseOps)
              IN  /\ \A i \in ran : Ran(i)
                  /\ Len(r.steps) = Cardinality(ran)
                  /\ \A i \in SP : /\ r.steps[1].step = "security-set-pass"
                                   /\ r.steps[1].returncode = io[i].rc
                  /\ \A i \in SE : /\ r.steps[2].step = "security-erase"
                                   /\ r.steps[2].returncode = io[i].rc
                  /\ r.success <=> (\A i \in ran : io[i].rc = 0) /\ SE # {}
                  /\ r.success => "error" \notin DOMAIN r
                  /\ (\E i \in SP : io[i].rc # 0) =>
                        /\ "error" \in DOMAIN r
                        /\ r.error = "Failed to set security password"
                  /\ (\E i \in SE : io[i].rc # 0) =>
                        /\ "error" \in DOMAIN r
                        /\ r.error = "Security erase command failed"

\* C6 witness: set-password returned 0, the erase command returned non-zero
C6_Witness ==
    /\ loc.method_result.some /\ ~args.dry_run
    /\ Len(loc.method_result.v.steps) = 2
    /\ loc.method_result.v.steps[1].returncode = 0
    /\ loc.method_result.v.steps[2].returncode # 0
    /\ ~loc.method_result.v.success

\* C7: every built record has result PASS iff the erase outcome's success flag
\* is true, else FAIL; a non-zero status of an erase command does not end the
\* process there, and the record built after it has every field and result
\* FAIL.
C7_ResultFromSuccess ==
    LET failed == \E i \in Ops(EraseOps) : Ran(i) /\ io[i].rc # 0 IN
    /\ (pc \in {"summary", "done"}) => loc.record.some
    /\ loc.record.some =>
          LET rec == loc.record.v IN
          /\ rec.result \in {"PASS", "FAIL"}
          /\ (rec.result = "PASS") <=> rec.method_result.success
          /\ rec.method_result = loc.method_result.v
          /\ failed => rec.result = "FAIL"
          /\ DOMAIN rec = {"device", "method", "dry_run", "pre_sample_bytes",
                           "pre_sample_hash", "post_sample_hash", "device_info",
                           "hdparm_before", "hdparm_after", "method_result",
                           "result"}
    /\ failed =>
          /\ loc.method_result.some \/ pc \in {"security_erase"}
          /\ (pc \in {"exited", "crashed"}) => io[Len(io)].op \notin EraseOps

\* C7 witness: a failed erase ended in a reported FAIL record and exit status 0
C7_Witness ==
    /\ pc = "done" /\ exit_code = 0
    /\ loc.record.v.result = "FAIL"
    /\ \E i \in Ops(EraseOps) : io[i].rc # 0

\* C8 as claimed: an erase command is issued only when the device exists,
\* dry-run is off and the run is unattended or the operator typed exactly YES;
\* any other typed input aborts with no command issued and no audit record.
C8_ExactToken ==
    /\ (Ops(EraseOps) # {}) =>
          /\ args.device_exists /\ ~args.dry_run
          /\ args.assume_yes \/ (loc.confirm.some /\ loc.confirm.v = Yes)
    /\ (loc.confirm.some /\ loc.confirm.v # Yes) =>
          /\ pc = "exited"
          /\ Ops({"lsblk", "hdparm -I", "sample_hash", "open", "write_log"}
                 \cup EraseOps) = {}
          /\ wipelog = << >>

\* C8 as amended: the typed line is compared after leading and trailing
\* whitespace is removed.
C8_StrippedToken ==
    /\ (Ops(EraseOps) # {}) =>
          /\ args.device_exists /\ ~args.dry_run
          /\ args.method = "ata-secure-erase"
          /\ args.assume_yes \/ (loc.confirm.some /\ Strip(loc.confirm.v) = Yes)
    /\ (loc.confirm.some /\ Strip(loc.confirm.v) # Yes) =>
          /\ pc = "exited" /\ exit_code = 0
          /\ Ops({"lsblk", "hdparm -I", "sample_hash", "open", "write_log"}
                 \cup EraseOps) = {}
          /\ wipelog = << >> /\ calls = << >>
          /\ wipe_logs = << >> /\ fallback_file = << >>
    /\ (loc.confirm.some /\ Strip(loc.confirm.v) = Yes) => pc # "exited" \/ io[Len(io)].op # "input"

\* C8 witness: the operator typed YES with surrounding whitespace and the erase
\* command was issued
C8_Witness ==
    /\ loc.confirm.some
    /\ loc.confirm.v # Yes
    /\ Ops({"security-erase"}) # {}

\* C9: a dry run issues no set-password and no erase command whatever
\* assume-yes and sample-bytes are; its outcome has the two steps
\* security-set-pass and security-erase, both simulated, and success; the
\* identity is queried before and after; the record's result is PASS.
C9_DryRun ==
    args.dry_run =>
        /\ Ops(EraseOps) = {}
        /\ loc.method_result.some =>
              LET r == loc.method_result.v IN
              /\ Len(r.steps) = 2
              /\ r.steps[1].step = "security-set-pass" /\ r.steps[1].simulated
              /\ r.steps[2].step = "security-erase" /\ r.steps[2].simulated
              /\ r.success
              /\ r.dry_run
        /\ loc.record.some =>
              /\ loc.record.v.result = "PASS"
              /\ loc.record.v.dry_run
              /\ Cardinality(Ops({"hdparm -I"})) = 2
              /\ \A i \in Ops({"hdparm -I"}) : Ran(i)
        /\ (pc \in {"summary", "done"}) => loc.record.some

\* C9 witness: a reported dry run without assume-yes and with sampling on
C9_Witness ==
    /\ args.dry_run /\ ~args.assume_yes /\ args.sample_bytes > 0
    /\ pc = "done"
    /\ loc.pre_hash.some /\ loc.post_hash.some

\* C10: with sample_bytes <= 0 the sampler is never invoked and the device is
\* never opened, both sample hashes of the record are absent, and the summary
\* prints no hash-match line.
C10_SamplingOff ==
    (args.sample_bytes <= 0) =>
        /\ Ops({"sample_hash", "open"}) = {}
        /\ ~loc.pre_hash.some /\ ~loc.post_hash.some
        /\ loc.record.some =>
              /\ ~loc.record.v.pre_sample_hash.some
              /\ ~loc.record.v.post_sample_hash.some
              /\ loc.record.v.pre_sample_bytes = 0
        /\ \A i \in Summaries : out[i].hash_match = "not printed"

\* C10 witness: a real erase with a negative sample_bytes was reported
C10_Witness ==
    /\ args.sample_bytes < 0 /\ ~args.dry_run
    /\ pc = "done"
    /\ Summaries # {}


\* the n-th identity query and the n-th sampler call of the run, as sets of
\* positions in io (empty when the run has not got there)
NthOp(name, n) ==
    LET ops == Ops({name})
    IN  {i \in ops : Cardinality({j \in ops : j <= i}) = n}
ReadFailed(n) ==
    \E s \in NthOp("sample_hash", n) :
        s + 1 \in Ops({"open"}) /\ ~io[s + 1].found
QueryFailed(n) == \E q \in NthOp("hdparm -I", n) : Ran(q) /\ io[q].rc # 0

\* C11: a read failure of the sampler or a failed identity query (non-zero
\* status or empty output), before or after the erase, does not end the run
\* there; the run goes on to the next step, and the local and the record's
\* field for that sample or identity are absent.
C11_DegradedCapture ==
    /\ (pc \in {"exited", "crashed"} /\ io # << >>) =>
          LET last == io[Len(io)] IN
          \/ last.op = "input"
          \/ last.op \in {"lsblk", "hdparm -I"} \cup EraseOps /\ ~last.found
          \/ last.op = "lsblk"
          \/ last.op = "write_log" /\ last.rc # 0
          \/ args.method # "ata-secure-erase"
    /\ QueryFailed(1) => ~loc.hdparm_before.some
    /\ QueryFailed(2) => ~loc.hdparm_after.some
    /\ loc.hdparm_before.some => loc.hdparm_before.v.raw # << >>
    /\ loc.hdparm_after.some => loc.hdparm_after.v.raw # << >>
    /\ ReadFailed(1) => ~loc.pre_hash.some
    /\ ReadFailed(2) => ~loc.post_hash.some
    /\ (ReadFailed(1) \/ ReadFailed(2)) =>
          \E i \in DOMAIN out : out[i].kind = "warn_sample"
    /\ loc.record.some =>
          /\ loc.record.v.hdparm_before = loc.hdparm_before
          /\ loc.record.v.hdparm_after = loc.hdparm_after
          /\ loc.record.v.pre_sample_hash = loc.pre_hash
          /\ loc.record.v.post_sample_hash = loc.post_hash

\* C11 witness: the pre-erase read and the post-erase identity query failed
\* and the session was written and reported with both fields absent
C11_Witness ==
    /\ pc = "done"
    /\ ReadFailed(1) /\ QueryFailed(2)
    /\ ~ReadFailed(2) /\ ~QueryFailed(1)
    /\ ~loc.record.v.pre_sample_hash.some
    /\ ~loc.record.v.hdparm_after.some
    /\ loc.record.v.post_sample_hash.some
    /\ Len(wipelog) = 1


\* =================================================================
\*  parse_hdparm_identity, one line per step (ParseSpec)
\* =================================================================

\* lines of identity text a call is given at most
MaxLines == 3

\* the lines the texts are made of: the lines of "hdparm -I" the parser looks
\* for, a blank line, an unrecognised line and a label without a value
L_Security ==
    <<"S", "e", "c", "u", "r", "i", "t", "y", ":">>
L_supported ==
    <<" ", " ", " ", "s", "u", "p", "p", "o", "r", "t", "e", "d">>
L_not_enabled ==
    <<" ", " ", "n", "o", "t", " ", "e", "n", "a", "b", "l", "e", "d">>
L_enabled ==
    <<"\t", "e", "n", "a", "b", "l", "e", "d">>
L_blank ==
    << >>
L_model ==
    <<"M", "o", "d", "e", "l", " ", "N", "u", "m", "b", "e", "r", ":", " ",
      "A">>
L_serial_empty ==
    <<"S", "e", "r", "i", "a", "l", " ", "N", "u", "m", "b", "e", "r", ":">>
L_other ==
    <<"x">>
L_not_supported_enhanced ==
    <<"\t", "n", "o", "t", " ", "s", "u", "p", "p", "o", "r", "t", "e", "d",
      ":", " ", "e", "n", "h", "a", "n", "c", "e", "d", " ", "e", "r", "a",
      "s", "e">>
L_erase_time ==
    <<"\t", "2", "m", "i", "n", " ", "f", "o", "r", " ", "S", "E", "C", "U",
      "R", "I", "T", "Y", " ", "E", "R", "A", "S", "E", " ", "U", "N", "I",
      "T", ".">>
L_size ==
    <<"d", "e", "v", "i", "c", "e", " ", "s", "i", "z", "e", " ", "w", "i",
      "t", "h", " ", "M", " ", "=", " ", "1", "0", "0", "0", "*", "1", "0",
      "0", "0", ":", " ", "5">>
L_not_locked ==
    <<"\t", "n", "o", "t", "\t", "l", "o", "c", "k", "e", "d">>
L_frozen ==
    <<"\t", "f", "r", "o", "z", "e", "n">>
L_erase_time_short ==
    <<"\t", "e", "r", "a", "s", "e", " ", "t", "i", "m", "e", ":", " ", "8">>
IdentityLines ==
    {L_Security, L_supported, L_not_enabled, L_enabled,
     L_blank, L_model, L_serial_empty, L_other,
     L_not_supported_enhanced, L_erase_time, L_size, L_not_locked,
     L_frozen, L_erase_time_short}

\* the text of lines ls, each ended by "\n"
RECURSIVE JoinLines(_)
JoinLines(ls) ==
    IF ls = << >> THEN << >> ELSE Head(ls) \o <<"\n">> \o JoinLines(Tail(ls))

\* a text with a second "Security:" header after the block was left
TwoHeaders == <<L_Security, L_other, L_Security, L_enabled>>

ParserTexts ==
    {JoinLines(ls) : ls \in UNION {[1 .. n -> IdentityLines] : n \in 0 .. MaxLines}}
        \cup {JoinLines(TwoHeaders)}

ParseInit ==
    /\ enabled = FALSE
    /\ SinkIdle
    /\ WipeIdle
    /\ SamplerIdle
    /\ p_text \in ParserTexts
    /\ p_lines = SplitLines(p_text)
    /\ p_hist = <<ParserStart(p_text)>>

\* parse_hdparm_identity: one turn of "for line in lines"
ParseLine ==
    /\ p_hist # << >>
    /\ Len(p_hist) <= Len(p_lines)
    /\ p_hist' = Append(p_hist, LineStep(p_hist[Len(p_hist)], p_lines[Len(p_hist)]))
    /\ UNCHANGED <<p_text, p_lines>>
    /\ UNCHANGED <<sinkVars, wipeVars, samplerVars>>

ParseNext == ParseLine

ParseSpec == ParseInit /\ [][ParseNext]_vars

\* ---- claims about the parser

\* the lines taken so far, the state before and after line i
Taken == 1 .. (Len(p_hist) - 1)
Before(i) == p_hist[i]
After(i) == p_hist[i + 1]
Parsed == p_hist # << >> /\ Len(p_hist) = Len(p_lines) + 1
ParsedData == p_hist[Len(p_hist)].data

SecurityKeys ==
    {"security_supported", "security_enabled", "security_locked",
     "security_frozen", "enhanced_erase_supported", "erase_time_raw"}
Flags(data) == [k \in DOMAIN data \cap SecurityKeys |-> data[k]]
HeaderLine(i) == StartsWith(Strip(p_lines[i]), K_Security)
\* line i is taken inside the security block
InBlock(i) ==
    /\ Before(i).in_security /\ ~HeaderLine(i)
    /\ After(i).in_security
LowerOf(i) == Lower(Strip(p_lines[i]))
Names(i, word) == Contains(LowerOf(i), word)

\* C12: for the text "Security:\n   supported\n  not enabled\n" the record has
\* security_supported = true and security_enabled = false; a line of the
\* security block that names enabled, locked or frozen and carries "not"
\* leaves that flag present with value false.
C12_NegatedFlag ==
    /\ (Parsed /\ p_lines = <<L_Security, L_supported, L_not_enabled>>) =>
          /\ "security_supported" \in DOMAIN ParsedData /\ ParsedData.security_supported
          /\ "security_enabled" \in DOMAIN ParsedData /\ ~ParsedData.security_enabled
    /\ \A i \in Taken :
          \A w \in {"enabled", "locked", "frozen"} :
              LET word == CASE w = "enabled" -> K_enabled
                            [] w = "locked" -> K_locked
                            [] w = "frozen" -> K_frozen
                  key == CASE w = "enabled" -> "security_enabled"
                           [] w = "locked" -> "security_locked"
                           [] w = "frozen" -> "security_frozen"
              IN  (InBlock(i) /\ Names(i, word) /\ Names(i, K_not)) =>
                      /\ key \in DOMAIN After(i).data
                      /\ ~After(i).data[key]

\* C13: every text gives a record whose raw field is the text unchanged, and
\* a field is in the record only if a line taken so far set it: a label line
\* for model, serial, firmware and size, a line of the security block naming
\* the flag for each security field.
C13_OnlyWhatLinesSet ==
    p_hist # << >> =>
    LET data == ParsedData
        Label(key, lab) ==
            key \in DOMAIN data =>
                \E i \in Taken :
                    /\ StartsWith(Strip(p_lines[i]), lab)
                    /\ data[key] = Strip(AfterFirst(Strip(p_lines[i]), lab))
        Flag(key, word) ==
            key \in DOMAIN data =>
                /\ data[key] \in BOOLEAN
                /\ \E i \in Taken : InBlock(i) /\ Names(i, word)
    IN  /\ "raw" \in DOMAIN data /\ data.raw = p_text
        /\ DOMAIN data \subseteq
              {"raw", "model", "serial", "firmware", "reported_size_m10"}
                  \cup SecurityKeys
        /\ Label("model", K_ModelNumber)
        /\ Label("serial", K_SerialNumber)
        /\ Label("firmware", K_FirmwareRevision)
        /\ "reported_size_m10" \in DOMAIN data =>
              \E i \in Taken : Contains(Strip(p_lines[i]), K_DeviceSize)
        /\ Flag("security_supported", K_supported)
        /\ Flag("security_enabled", K_enabled)
        /\ Flag("security_locked", K_locked)
        /\ Flag("security_frozen", K_frozen)
        /\ Flag("enhanced_erase_supported", K_enhanced_erase)
        /\ "erase_time_raw" \in DOMAIN data =>
              \E i \in Taken :
                  /\ InBlock(i)
                  /\ Names(i, K_erase_time) \/ Names(i, K_security_erase_unit)
                  /\ data.erase_time_raw = Strip(p_lines[i])
        /\ Parsed => data = parse_hdparm_identity(p_text)

\* C13 witness: a text of an unrecognised line, a label without a value and
\* an indented flag line outside any block gives raw and an empty serial only
C13_Witness ==
    /\ Parsed
    /\ p_lines = <<L_other, L_serial_empty, L_enabled>>
    /\ DOMAIN ParsedData = {"raw", "serial"}
    /\ ParsedData.serial = << >>
    /\ ParsedData.raw = p_text

\* C17 as claimed: once the security block has been left the parser is never
\* in security-block mode again, and no later line sets a security flag.
C17_NeverReenters ==
    \A i \in Taken : \A j \in Taken :
        (i < j /\ Before(i).in_security /\ ~After(i).in_security) =>
            /\ ~After(j).in_security
            /\ Flags(After(j).data) = Flags(Before(j).data)

\* C17 as amended: the mode is entered at every line whose stripped text
\* starts with "Security:", the first one or a later one; in the mode, a
\* non-blank line that is not indented and is no header leaves it, a blank or
\* indented line does not; a header line, a line that leaves the mode and a
\* line outside the mode set no security flag.
C17_BlockMode ==
    \A i \in Taken :
        LET line == p_lines[i]
            ends == Strip(line) # << >> /\ ~Indented(line)
        IN  /\ After(i).in_security <=>
                  \/ HeaderLine(i)
                  \/ Before(i).in_security /\ ~ends
            /\ ~InBlock(i) => Flags(After(i).data) = Flags(Before(i).data)
            /\ (i = 1) => ~Before(i).in_security

\* C17 witness: the block was left, a second header was met and an indented
\* line under it set a flag
C17_Witness ==
    /\ Parsed
    /\ p_lines = TwoHeaders
    /\ ~After(2).in_security /\ After(3).in_security
    /\ "security_enabled" \notin DOMAIN After(3).data
    /\ "security_enabled" \in DOMAIN ParsedData /\ ParsedData.security_enabled

\* ---- claims about the sink, continued

CallIds == 1 .. Len(calls)
Healthy == enabled /\ \A k \in CallIds : calls[k].db_would_work
Connects == {k \in CallIds : calls[k].connect}

\* C14: while the database is enabled, eligible and healthy every persist
\* call inserts its own row, also when the session was persisted before:
\* as many rows as calls, call k's row is row k, nothing is in the fallback
\* file and the latch stays set.
C14_NoDeduplication ==
    Healthy =>
        /\ use_db
        /\ fallback_file = << >>
        /\ Len(wipe_logs) = Len(calls)
        /\ \A k \in CallIds : wipe_logs[k] = [call |-> k, event |-> calls[k].event]
        /\ \A k \in CallIds : calls[k].insert /\ ~calls[k].file_tried

\* C14 witness: the same session persisted twice, two rows
C14_Witness ==
    /\ Healthy
    /\ Len(calls) >= 2
    /\ calls[1].event = calls[2].event
    /\ Len(wipe_logs) >= 2
    /\ wipe_logs[1].event = wipe_logs[2].event

\* C19: over all persist calls the sink opens a connection at most once: the
\* call that opens is the first one that attempts the database, a later call
\* that inserts does so on the held connection without opening, after a
\* failed open nothing is opened and none is held, and with the database
\* disabled none is ever opened.
C19_OneConnection ==
    /\ Cardinality(Connects) <= 1
    /\ \A k \in CallIds :
          calls[k].connect <=>
              /\ calls[k].db_tried
              /\ \A j \in 1 .. (k - 1) : ~calls[j].db_tried
    /\ \A k \in CallIds :
          (calls[k].insert /\ ~calls[k].connect) =>
              \E j \in 1 .. (k - 1) : calls[j].connect /\ calls[j].insert
    /\ \A k \in CallIds :
          (calls[k].connect /\ ~calls[k].insert) =>
              /\ conn = None
              /\ \A j \in (k + 1) .. Len(calls) : ~calls[j].db_tried
    /\ (conn # None) <=> \E k \in CallIds : calls[k].connect /\ calls[k].insert
    /\ ~enabled => Connects = {} /\ conn = None

\* C19 witness: the first call opened the connection, the second inserted on it
C19_Witness ==
    /\ Len(calls) >= 2
    /\ calls[1].connect /\ calls[1].insert
    /\ calls[2].insert /\ ~calls[2].connect /\ ~calls[2].db_raised
    /\ conn # None
    /\ Len(wipe_logs) = 2

\* =================================================================
\*  write_log over several runs of the tool (LogSpec)
\* =================================================================

\* runs of the tool that reach write_log, and the last clock reading
MaxLogs == 2
MaxLogTime == 5

LogInit ==
    /\ enabled = FALSE
    /\ SinkIdle
    /\ WipeIdle
    /\ ParserIdle
    /\ SamplerIdle

\* one run of the tool reaches write_log(record): the runs share /var/wipelog
\* and the clock, which never goes back
LogRun ==
    /\ Len(wipelog) < MaxLogs
    /\ \E s \in Sessions, t1 \in now .. MaxLogTime, mkdirOk \in BOOLEAN,
          appendOk \in BOOLEAN :
       \E t2 \in t1 .. MaxLogTime :
          LET w == write_log(wipelog, [session |-> s], t1, t2, mkdirOk, appendOk)
          IN  /\ wipelog' = w.files
              /\ now' = IF ~mkdirOk THEN now ELSE t2
    /\ UNCHANGED <<pc, args, disk, io, loc, out, exit_code>>
    /\ UNCHANGED <<sinkVars, parserVars, samplerVars>>

LogNext == LogRun

LogSpec == LogInit /\ [][LogNext]_vars

\* seconds of a timestamp
Seconds(ts) == ts.date * SecondsPerDay + ts.time

\* C15: the file a record is appended to is named from the UTC date alone,
\* so two records written on the same UTC date are in the same file; and
\* logged_at is read at that write, not before the name was made.
C15_DatePartitioned ==
    /\ \A i \in 1 .. Len(wipelog) : \A j \in 1 .. Len(wipelog) :
          wipelog[i].file.day.date = wipelog[j].file.day.date =>
              wipelog[i].file = wipelog[j].file
    /\ \A i \in 1 .. Len(wipelog) :
          Seconds(wipelog[i].file.day) <= Seconds(wipelog[i].record.logged_at)

\* =================================================================
\*  Claims about the orchestrator (WipeSpec), continued
\* =================================================================

\* the place of effect i in do_wipe's order of steps; the first identity
\* query and sample are the pre-capture, the second ones the post-capture
StepRank(i) ==
    LET op == io[i].op
        nth(name) == Cardinality({j \in Ops({name}) : j <= i})
    IN  CASE op = "input" -> 1
          [] op = "lsblk" -> 2
          [] op = "hdparm -I" -> IF nth("hdparm -I") = 1 THEN 3 ELSE 8
          [] op \in {"sample_hash", "open"} ->
                 IF nth("sample_hash") = 1 THEN 4 ELSE 9
          [] op = "security-set-pass" -> 6
          [] op = "security-erase" -> 7
          [] op = "write_log" -> 10

\* C16: the steps of a session are taken in the fixed order pre-identity,
\* pre-sample, erase, post-identity, post-sample, persist, report, each at
\* most once; no erase command is issued before the pre-capture is over; and
\* a session past the confirmation that is not stopped by a fatal error
\* (missing binary, failed inventory query, unsupported method) ends with its
\* summary printed, the record written once, whether the result is PASS or
\* FAIL.
C16_FixedOrder ==
    /\ \A i \in DOMAIN io : \A j \in DOMAIN io :
          i < j => StepRank(i) <= StepRank(j)
    /\ \A name \in {"input", "lsblk", "security-set-pass", "security-erase",
                    "write_log"} : Cardinality(Ops({name})) <= 1
    /\ Cardinality(Ops({"hdparm -I"})) <= 2
    /\ Cardinality(Ops({"sample_hash"})) <= 2
    /\ Cardinality(Summaries) <= 1
    /\ \A e \in Ops(EraseOps) :
          /\ \E q \in Ops({"hdparm -I"}) : q < e /\ Ran(q)
          /\ SamplingOn(args.sample_bytes) =>
                \E r \in Ops({"sample_hash"}) : r < e
    /\ pc = "crashed" => io[Len(io)].op \in {"input", "lsblk"}
    /\ pc = "done" =>
          /\ Cardinality(Summaries) = 1
          /\ Len(wipelog) = 1
          /\ wipelog[1].record.rec.result \in {"PASS", "FAIL"}

\* C18 as claimed: the dry-run outcome and a real outcome have the same
\* top-level fields but for the dry-run marker, and every step entry has the
\* fields of a real step: step name, command, exit status, error text.
C18_SameShape ==
    loc.method_result.some =>
        LET mr == loc.method_result.v
        IN  /\ DOMAIN mr \ {"dry_run", "error"} =
                   {"device", "method", "steps", "success"}
            /\ \A i \in DOMAIN mr.steps :
                   {"step", "cmd", "returncode", "stderr"} \subseteq DOMAIN mr.steps[i]

\* C18 as amended: both outcomes have device, method, steps and success, the
\* dry-run one also dry_run = true and a real one never a dry_run field; the
\* dry-run outcome names both steps in the order of a successful real erase
\* and reports success; its step entries have the step name and a simulated
\* marker only, a real step entry has step name, command, exit status and
\* error text and no simulated marker.
C18_DryRunShape ==
    loc.method_result.some =>
        LET mr == loc.method_result.v
            names == [i \in DOMAIN mr.steps |-> mr.steps[i].step]
        IN  /\ DOMAIN mr \ {"dry_run", "error"} =
                   {"device", "method", "steps", "success"}
            /\ mr.device = "/dev/sdx" /\ mr.method = "ata-secure-erase"
            /\ IF args.dry_run
               THEN /\ "dry_run" \in DOMAIN mr /\ mr.dry_run
                    /\ "error" \notin DOMAIN mr
                    /\ mr.success
                    /\ names = <<"security-set-pass", "security-erase">>
                    /\ \A i \in DOMAIN mr.steps :
                          /\ DOMAIN mr.steps[i] = {"step", "simulated"}
                          /\ mr.steps[i].simulated
               ELSE /\ "dry_run" \notin DOMAIN mr
                    /\ "error" \in DOMAIN mr <=> ~mr.success
                    /\ names \in {<<"security-set-pass">>,
                                  <<"security-set-pass", "security-erase">>}
                    /\ mr.success => Len(names) = 2
                    /\ \A i \in DOMAIN mr.steps :
                          DOMAIN mr.steps[i] = {"step", "cmd", "returncode", "stderr"}

\* C18 witness: a dry run reported with its outcome in the written record
C18_Witness ==
    /\ pc = "done"
    /\ args.dry_run
    /\ loc.method_result.some
    /\ DOMAIN loc.method_result.v.steps[1] = {"step", "simulated"}
    /\ Len(wipelog) = 1
    /\ wipelog[1].record.rec.method_result = loc.method_result.v
    /\ wipelog[1].record.rec.dry_run

\* =================================================================
\*  sample_hash, one read per step (SamplerSpec)
\* =================================================================

\* length of the source and the largest num_bytes
MaxSrcLen == 3
MaxCount == 4

Sources == UNION {[1 .. n -> Bytes] : n \in 0 .. MaxSrcLen}

SamplerInit ==
    /\ enabled = FALSE
    /\ SinkIdle
    /\ WipeIdle
    /\ ParserIdle
    /\ s_src \in Sources
    /\ s_count \in -1 .. MaxCount
    /\ s_remaining = 0
    /\ s_hashed = << >>
    /\ s_reads = << >>
    /\ s_pc = "call"

\* one call on the file inside sample_hash's try block
Call(op, want, remaining, got, ok) ==
    [op |-> op, want |-> want, remaining |-> remaining, got |-> got, ok |-> ok]

\* sample_hash: the num_bytes guard, then open(device, "rb"), which may
\* raise; remaining = num_bytes
SampleEnter ==
    /\ s_pc = "call"
    /\ IF s_count <= 0
       THEN /\ s_pc' = "absent"
            /\ UNCHANGED <<s_remaining, s_reads>>
       ELSE \E openOk \in BOOLEAN :
            /\ s_reads' = Append(s_reads, Call("open", 0, s_count, 0, openOk))
            /\ IF openOk
               THEN s_pc' = "loop" /\ s_remaining' = s_count
               ELSE s_pc' = "absent" /\ UNCHANGED s_remaining
    /\ UNCHANGED <<s_src, s_count, s_hashed>>
    /\ UNCHANGED <<sinkVars, wipeVars, parserVars>>

\* sample_hash: one turn of "while remaining > 0": f.read may raise, returns
\* nothing at the end of the source (break, then the digest is returned) and
\* otherwise between one byte and the bytes asked for
SampleRead ==
    /\ s_pc = "loop"
    /\ s_remaining > 0
    /\ LET want == ReadSize(s_remaining)
           pos  == Len(s_hashed)
           rest == Len(s_src) - pos
       IN  \E readOk \in BOOLEAN :
           \E got \in (IF rest = 0 THEN {0} ELSE 1 .. Min(want, rest)) :
               LET chunk == SubSeq(s_src, pos + 1, pos + got)
               IN  /\ s_reads' = Append(s_reads,
                          Call("read", want, s_remaining,
                               IF readOk THEN got ELSE 0, readOk))
                   /\ IF ~readOk
                      THEN s_pc' = "absent" /\ UNCHANGED <<s_hashed, s_remaining>>
                      ELSE IF chunk = << >>
                      THEN s_pc' = "returned" /\ UNCHANGED <<s_hashed, s_remaining>>
                      ELSE /\ s_hashed' = s_hashed \o chunk
                           /\ s_remaining' = s_remaining - Len(chunk)
                           /\ s_pc' = "loop"
    /\ UNCHANGED <<s_src, s_count>>
    /\ UNCHANGED <<sinkVars, wipeVars, parserVars>>

\* sample_hash: the loop condition fails, "return hasher.hexdigest()"
SampleReturn ==
    /\ s_pc = "loop"
    /\ s_remaining <= 0
    /\ s_pc' = "returned"
    /\ UNCHANGED <<s_src, s_count, s_remaining, s_hashed, s_reads>>
    /\ UNCHANGED <<sinkVars, wipeVars, parserVars>>

SamplerNext ==
    \/ SampleEnter
    \/ SampleRead
    \/ SampleReturn

SamplerSpec == SamplerInit /\ [][SamplerNext]_vars

\* the call is not stopped: each of its steps is taken once it can be
SamplerFairSpec == SamplerSpec /\ WF_vars(SamplerNext)

\* ---- claims about the sampler

Reads == {i \in DOMAIN s_reads : s_reads[i].op = "read"}
\* the source was readable so far: open and every read returned
Readable == \A i \in DOMAIN s_reads : s_reads[i].ok
Covered == Min(s_count, Len(s_src))

SamplerSafe ==
    s_count > 0 =>
        /\ \A i \in Reads :
              /\ s_reads[i].want <= Min(ChunkSize, s_reads[i].remaining)
              /\ s_reads[i].want > 0
              /\ s_reads[i].got <= s_reads[i].want
        /\ Len(s_hashed) <= Covered
        /\ s_hashed = SubSeq(s_src, 1, Len(s_hashed))
        /\ s_pc = "loop" => s_remaining = s_count - Len(s_hashed)
        /\ s_pc = "absent" => ~Readable
        /\ s_pc = "returned" =>
              /\ Readable
              /\ Len(s_hashed) = Covered
              /\ s_hashed = SubSeq(s_src, 1, Covered)
              /\ s_hashed = ReadLoop(s_src, 0, s_count, << >>)
              /\ sample_hash(s_src, s_count, TRUE).value = Some([sha256 |-> s_hashed])

\* C20: for a count > 0 and a readable source of length L the read loop
\* ends; every read asks for at most min(chunk size, remaining) bytes; the
\* bytes digested are never more than count and, at the return, exactly the
\* first min(count, L) bytes of the source in order, a digest being returned
\* also for a short or empty source.
C20_BoundedSample ==
    /\ []SamplerSafe
    /\ <>(s_pc \in {"returned", "absent"})
    /\ [](s_count > 0 => <>(s_pc = "returned" \/ ~Readable))

\* C20 witness: a source shorter than count and longer than a chunk was read
\* to its end in several reads, the last one limited by what remained
C20_Witness ==
    /\ s_pc = "returned"
    /\ Len(s_src) > ChunkSize
    /\ s_count > Len(s_src)
    /\ s_hashed = s_src
    /\ \E i \in Reads : s_reads[i].want < ChunkSize /\ s_reads[i].got = 0
    /\ Cardinality(Reads) >= 3

\* =================================================================
\*  Claims about the parser (ParseSpec), continued
\* =================================================================

\* the lines taken inside the security block whose lowered text contains
\* "supported", and the ones that carry erase-time text
SupportedLines == {i \in Taken : InBlock(i) /\ Names(i, K_supported)}
EraseTimeLines ==
    {i \in Taken :
        InBlock(i) /\ (Names(i, K_erase_time) \/ Names(i, K_security_erase_unit))}
Last(S) == CHOOSE i \in S : \A j \in S : j <= i
First(S) == CHOOSE i \in S : \A j \in S : i <= j

\* C21: every line of the security block whose lowered text contains
\* "supported" writes security_supported (true iff the line lacks "not"), so
\* the last such line decides the value; "supported" followed by
\* "not supported: enhanced erase" ends with security_supported = false and
\* enhanced_erase_supported = false; erase_time_raw is the text of the first
\* erase-time line, later ones do not replace it.
C21_LastSupportedDecides ==
    p_hist # << >> =>
        /\ \A i \in SupportedLines :
              /\ "security_supported" \in DOMAIN After(i).data
              /\ After(i).data.security_supported = ~Names(i, K_not)
        /\ IF SupportedLines = {}
           THEN "security_supported" \notin DOMAIN ParsedData
           ELSE ParsedData.security_supported = ~Names(Last(SupportedLines), K_not)
        /\ (Parsed /\ p_lines = <<L_Security, L_supported, L_not_supported_enhanced>>) =>
              /\ ~ParsedData.security_supported
              /\ "enhanced_erase_supported" \in DOMAIN ParsedData
              /\ ~ParsedData.enhanced_erase_supported
        /\ IF EraseTimeLines = {}
           THEN "erase_time_raw" \notin DOMAIN ParsedData
           ELSE ParsedData.erase_time_raw = Strip(p_lines[First(EraseTimeLines)])

\* C21 witness: "supported" set the flag to true and the following
\* "not supported: enhanced erase" line overwrote it with false
C21_Witness ==
    /\ Parsed
    /\ p_lines = <<L_Security, L_supported, L_not_supported_enhanced>>
    /\ After(2).data.security_supported
    /\ "enhanced_erase_supported" \notin DOMAIN After(2).data
    /\ ~ParsedData.security_supported
    /\ ~ParsedData.enhanced_erase_supported

====
